---- MODULE Spec2Model ----
(***************************************************************************)
(* Model of birthday_scraper.py: the Births-section walk, the per-item     *)
(* parser with its liveness and nationality heuristics, the description    *)
(* normaliser and the HTML fragment builder.                               *)
(*                                                                         *)
(* Text is modelled as TLA+ strings, one character per position.  Two      *)
(* characters of the program are not ASCII and are written with ASCII      *)
(* stand-ins that occur nowhere else in the model's texts:                 *)
(*     "~"  is the en dash  U+2013  (DASH in the source)                   *)
(*     "+"  is the dagger   U+2020                                         *)
(* Neither is a word character, a digit or white space, like the           *)
(* characters they stand for.                                              *)
(***************************************************************************)
EXTENDS Integers, Sequences, FiniteSets, TLC

VARIABLES
    doc,           \* the parsed document: the sequence of the root's children
    current_year,  \* today.year
    pc,            \* position of main() / of the function under check
    h2_span,       \* find_births_section: the selected span (a path) or NoNode
    header,        \* find_births_section: the climbing pointer (a path) or NoNode
    node,          \* find_births_section: the sibling walked (a path) or NoNode
    lis,           \* find_births_section: the collected <li> (paths)
    idx,           \* main: number of li_tags already handled
    entries,       \* main: the parsed records, in order
    html,          \* main: the built fragment, "" before build_html
    li_text,       \* the raw entry given to parse_birth_li
    variant,       \* a second raw entry, li_text with citations / white space added
    parsed,        \* result of parse_birth_li(li_text, current_year)
    parsed2,       \* result of parse_birth_li(variant, current_year)
    desc_in,       \* the description given to fix_profession
    once,          \* fix_profession(desc_in)
    twice,         \* fix_profession(fix_profession(desc_in))
    marks          \* number of citation markers / blanks added to variant

vars == <<doc, current_year, pc, h2_span, header, node, lis, idx, entries, html,
          li_text, variant, parsed, parsed2, desc_in, once, twice, marks>>

-----------------------------------------------------------------------------
(* Characters *)

DASH == "~"
DAGGER == "+"
HYPHEN == "-"

UpperStr == "ABCDEFGHIJKLMNOPQRSTUVWXYZ"
LowerStr == "abcdefghijklmnopqrstuvwxyz"
DigitStr == "0123456789"

At(s, i) == IF i >= 1 /\ i <= Len(s) THEN SubSeq(s, i, i) ELSE ""
From(s, i) == SubSeq(s, i, Len(s))
StartsWith(s, p) == Len(s) >= Len(p) /\ SubSeq(s, 1, Len(p)) = p
MatchAt(s, i, p) == i >= 1 /\ i + Len(p) - 1 <= Len(s) /\ SubSeq(s, i, i + Len(p) - 1) = p

UpperSet == {At(UpperStr, i) : i \in 1..Len(UpperStr)}
LowerSet == {At(LowerStr, i) : i \in 1..Len(LowerStr)}
DigitSet == {At(DigitStr, i) : i \in 1..Len(DigitStr)}
SpaceSet == {" ", "\t", "\n"}

IsDigit(c) == c \in DigitSet
IsSpace(c) == c \in SpaceSet
IsAsciiLetter(c) == c \in UpperSet \cup LowerSet
IsWord(c) == c \in UpperSet \cup LowerSet \cup DigitSet \cup {"_"}

\* regex \b before position i of s (between characters i-1 and i)
WordBoundary(s, i) == IsWord(At(s, i - 1)) # IsWord(At(s, i))

LowerChar(c) == IF c \in UpperSet
                THEN At(LowerStr, CHOOSE i \in 1..Len(UpperStr) : At(UpperStr, i) = c)
                ELSE c
UpperChar(c) == IF c \in LowerSet
                THEN At(UpperStr, CHOOSE i \in 1..Len(LowerStr) : At(LowerStr, i) = c)
                ELSE c

RECURSIVE ToLower(_)
ToLower(s) == IF s = "" THEN "" ELSE LowerChar(At(s, 1)) \o ToLower(From(s, 2))

DigitVal(c) == (CHOOSE i \in 1..Len(DigitStr) : At(DigitStr, i) = c) - 1

RECURSIVE ToInt(_)
ToInt(s) == IF s = "" THEN 0
            ELSE ToInt(SubSeq(s, 1, Len(s) - 1)) * Len(DigitStr) + DigitVal(At(s, Len(s)))

\* first index >= i whose character is not white space (Len(s)+1 when none)
RECURSIVE SkipSpace(_, _)
SkipSpace(s, i) == IF i <= Len(s) /\ IsSpace(At(s, i)) THEN SkipSpace(s, i + 1) ELSE i

RECURSIVE LStrip(_)
LStrip(s) == IF s # "" /\ IsSpace(At(s, 1)) THEN LStrip(From(s, 2)) ELSE s
RECURSIVE RStrip(_)
RStrip(s) == IF s # "" /\ IsSpace(At(s, Len(s))) THEN RStrip(SubSeq(s, 1, Len(s) - 1)) ELSE s
Strip(s) == RStrip(LStrip(s))

-----------------------------------------------------------------------------
(* clean_text *)

\* A reference stripper that knows numeric markers only, re.sub(r"\[\d+\]", "", s):
\* what clean_text would be if it missed [a] and [citation needed].
RECURSIVE RemoveNumericRefs(_)
RemoveNumericRefs(s) ==
    IF s = "" THEN ""
    ELSE IF At(s, 1) = "[" /\ \E j \in 3..Len(s) :
                                 At(s, j) = "]" /\ \A k \in 2..(j - 1) : IsDigit(At(s, k))
         THEN LET j == CHOOSE j \in 3..Len(s) :
                           At(s, j) = "]" /\ \A k \in 2..(j - 1) : IsDigit(At(s, k))
              IN RemoveNumericRefs(From(s, j + 1))
         ELSE At(s, 1) \o RemoveNumericRefs(From(s, 2))

\* re.sub(r"\[[^\]]*\]", "", s)
RECURSIVE RemoveRefs(_)
RemoveRefs(s) ==
    IF s = "" THEN ""
    ELSE IF At(s, 1) = "[" /\ \E j \in 2..Len(s) : At(s, j) = "]"
         THEN LET j == CHOOSE j \in 2..Len(s) :
                           At(s, j) = "]" /\ \A k \in 2..(j - 1) : At(s, k) # "]"
              IN RemoveRefs(From(s, j + 1))
         ELSE At(s, 1) \o RemoveRefs(From(s, 2))

\* re.sub(r"\s+", " ", s)
RECURSIVE CollapseSpace(_)
CollapseSpace(s) ==
    IF s = "" THEN ""
    ELSE IF IsSpace(At(s, 1)) THEN " " \o CollapseSpace(From(s, SkipSpace(s, 1)))
         ELSE At(s, 1) \o CollapseSpace(From(s, 2))

clean_text(s) == IF s = "" THEN "" ELSE Strip(CollapseSpace(RemoveRefs(s)))

-----------------------------------------------------------------------------
(* looks_dead *)

\* \d{3,4} at position q, followed by what `after` requires at the next position
DigitsAt(s, q, n) == q + n - 1 <= Len(s) /\ \A k \in q..(q + n - 1) : IsDigit(At(s, k))

\* r"\bdied\b"
PatDied(t) == \E p \in 1..Len(t) :
    WordBoundary(t, p) /\ MatchAt(t, p, "died") /\ WordBoundary(t, p + 4)
\* r"\bdeath\b"
PatDeath(t) == \E p \in 1..Len(t) :
    WordBoundary(t, p) /\ MatchAt(t, p, "death") /\ WordBoundary(t, p + 5)
\* r"\bd\.\s*\d{3,4}\b"
PatDYear(t) == \E p \in 1..Len(t) :
    /\ WordBoundary(t, p) /\ MatchAt(t, p, "d.")
    /\ LET q == SkipSpace(t, p + 2)
       IN \E n \in {3, 4} : DigitsAt(t, q, n) /\ WordBoundary(t, q + n)
\* r"\b†\b"
PatDagger(t) == \E p \in 1..Len(t) :
    WordBoundary(t, p) /\ MatchAt(t, p, DAGGER) /\ WordBoundary(t, p + 1)
\* r"\b\(d[.)]"
PatParenD(t) == \E p \in 1..Len(t) :
    WordBoundary(t, p) /\ MatchAt(t, p, "(d") /\ At(t, p + 2) \in {".", ")"}
\* r"\b\(died\b"
PatParenDied(t) == \E p \in 1..Len(t) :
    WordBoundary(t, p) /\ MatchAt(t, p, "(died") /\ WordBoundary(t, p + 5)
\* r"\b–\s*\d{3,4}\)"
PatRange(t) == \E p \in 1..Len(t) :
    /\ WordBoundary(t, p) /\ MatchAt(t, p, DASH)
    /\ LET q == SkipSpace(t, p + 1)
       IN \E n \in {3, 4} : DigitsAt(t, q, n) /\ At(t, q + n) = ")"

\* The heuristics without the "d. 1987" pattern of line 41.
looks_dead_without_d_year(text) ==
    LET t == ToLower(text)
    IN \/ PatDied(t) \/ PatDeath(t) \/ PatDagger(t)
       \/ PatParenD(t) \/ PatParenDied(t) \/ PatRange(t)

looks_dead(text) ==
    LET t == ToLower(text)
    IN \/ PatDied(t) \/ PatDeath(t) \/ PatDYear(t) \/ PatDagger(t)
       \/ PatParenD(t) \/ PatParenDied(t) \/ PatRange(t)

-----------------------------------------------------------------------------
(* americanish *)

\* The nationality test without its closing \b, re.search(r"\b[A-Za-z-]*American", text).
americanish_open_ended(text) == \E p \in 1..Len(text) :
    /\ MatchAt(text, p, "American")
    /\ \E q \in 1..p :
          /\ WordBoundary(text, q)
          /\ \A k \in q..(p - 1) : IsAsciiLetter(At(text, k)) \/ At(text, k) = HYPHEN

\* re.search(r"\b[A-Za-z-]*American\b", text)
americanish(text) == \E p \in 1..Len(text) :
    /\ MatchAt(text, p, "American") /\ WordBoundary(text, p + 8)
    /\ \E q \in 1..p :
          /\ WordBoundary(text, q)
          /\ \A k \in q..(p - 1) : IsAsciiLetter(At(text, k)) \/ At(text, k) = HYPHEN

-----------------------------------------------------------------------------
(* fix_profession *)

\* re.sub(r"\s*<c>\s*", rep, s) for a single character c
RECURSIVE SubAround(_, _, _)
SubAround(s, c, rep) ==
    IF s = "" THEN ""
    ELSE LET q == SkipSpace(s, 1)
         IN IF At(s, q) = c
            THEN rep \o SubAround(From(s, SkipSpace(s, q + 1)), c, rep)
            ELSE At(s, 1) \o SubAround(From(s, 2), c, rep)

\* The normaliser without line 66: the leading 'American ' dropped, the next word left as it is.
fix_profession_lower(desc) ==
    LET d0 == Strip(desc)
        d1 == IF StartsWith(d0, "American ")
              THEN Strip(From(d0, Len("American ") + 1))
              ELSE d0
        d2 == SubAround(d1, ",", ", ")
        d3 == SubAround(d2, DASH, " " \o DASH \o " ")
    IN clean_text(d3)

fix_profession(desc) ==
    LET d0 == Strip(desc)
        d1 == IF StartsWith(d0, "American ")
              THEN LET r == Strip(From(d0, Len("American ") + 1))
                   IN UpperChar(At(r, 1)) \o From(r, 2)
              ELSE d0
        d2 == SubAround(d1, ",", ", ")
        d3 == SubAround(d2, DASH, " " \o DASH \o " ")
    IN clean_text(d3)

-----------------------------------------------------------------------------
(* parse_birth_li *)

None == <<>>

\* re.split(r"\s[–-]\s", raw, maxsplit=1): index of the separator's first character, 0 when none
SepIndex(raw) ==
    LET hits == {i \in 1..Len(raw) : /\ IsSpace(At(raw, i))
                                     /\ At(raw, i + 1) \in {DASH, HYPHEN}
                                     /\ IsSpace(At(raw, i + 2))}
    IN IF hits = {} THEN 0 ELSE CHOOSE i \in hits : \A j \in hits : i <= j

\* str.split(): the white-space separated tokens
RECURSIVE Tokens(_)
Tokens(s) ==
    LET t == LStrip(s)
    IN IF t = "" THEN <<>>
       ELSE LET e == CHOOSE e \in 1..Len(t) :
                         /\ \A k \in 1..e : ~IsSpace(At(t, k))
                         /\ (e = Len(t) \/ IsSpace(At(t, e + 1)))
            IN <<SubSeq(t, 1, e)>> \o Tokens(From(t, e + 1))

RECURSIVE Join(_, _)
Join(sep, ts) == IF ts = <<>> THEN ""
                 ELSE IF Len(ts) = 1 THEN ts[1]
                 ELSE ts[1] \o sep \o Join(sep, Tail(ts))

CommaIndex(s) ==
    LET hits == {i \in 1..Len(s) : At(s, i) = ","}
    IN IF hits = {} THEN 0 ELSE CHOOSE i \in hits : \A j \in hits : i <= j

\* right = parts[1].strip(), "" when the split fails
RightOf(raw) ==
    LET i == SepIndex(raw) IN IF i = 0 THEN "" ELSE Strip(From(raw, i + 3))
YearOf(raw) ==
    LET i == SepIndex(raw) IN IF i = 0 THEN "" ELSE Strip(SubSeq(raw, 1, i - 1))

\* re.match(r"^\d{3,4}$", year_str)
YearOk(year_str) == Len(year_str) \in {3, 4} /\ DigitsAt(year_str, 1, Len(year_str))

\* the name / description split of lines 97-109: <<name, desc>>, or None when it bails
NameDesc(right) ==
    LET c == CommaIndex(right)
    IN IF c # 0
       THEN <<clean_text(SubSeq(right, 1, c - 1)), clean_text(From(right, c + 1))>>
       ELSE LET tokens == Tokens(right)
            IN IF Len(tokens) < 2 THEN None
               ELSE <<clean_text(tokens[1] \o " " \o tokens[2]),
                      clean_text(Join(" ", SubSeq(tokens, 3, Len(tokens))))>>

\* the description of lines 97-109, before fix_profession ("" when the parser bails earlier)
DescOf(text) ==
    LET raw == clean_text(text)
        nd == NameDesc(RightOf(raw))
    IN IF SepIndex(raw) = 0 \/ nd = None THEN "" ELSE nd[2]

parse_birth_li(text, year) ==
    LET raw == clean_text(text)
        right == RightOf(raw)
        year_str == YearOf(raw)
        nd == NameDesc(right)
    IN IF SepIndex(raw) = 0 THEN None
       ELSE IF ~YearOk(year_str) THEN None
       ELSE IF nd = None THEN None
       ELSE IF looks_dead(right) THEN None
       ELSE IF ~americanish(right) THEN None
       ELSE <<ToInt(year_str), nd[1], fix_profession(nd[2]), year - ToInt(year_str)>>

-----------------------------------------------------------------------------
(* The document tree (BeautifulSoup).  An element is a record; a NavigableString *)
(* is a node named "#text".  A node is addressed by its path from the root,      *)
(* the sequence of child indices; the root (the BeautifulSoup object itself) is  *)
(* the empty path and Python's None is NoNode.                                   *)

Elem(n, i, k) == [name |-> n, id |-> i, text |-> "", kids |-> k]
Text(s) == [name |-> "#text", id |-> "", text |-> s, kids |-> <<>>]

NoNode == <<0>>
RootName == "[document]"

RECURSIVE Descend(_, _)
Descend(nodes, path) ==
    IF Len(path) = 1 THEN nodes[path[1]] ELSE Descend(nodes[path[1]].kids, Tail(path))
NodeAt(d, path) == Descend(d, path)

KidsOf(d, path) == IF path = <<>> THEN d ELSE NodeAt(d, path).kids
NameOf(d, path) == IF path = <<>> THEN RootName ELSE NodeAt(d, path).name
\* Tag.parent
Parent(path) == IF path = <<>> THEN NoNode ELSE SubSeq(path, 1, Len(path) - 1)
\* PageElement.next_sibling
NextSibling(d, path) ==
    IF path = <<>> THEN NoNode
    ELSE LET n == Len(path)
         IN IF path[n] < Len(KidsOf(d, Parent(path)))
            THEN [path EXCEPT ![n] = path[n] + 1]
            ELSE NoNode

\* the paths of all nodes below `path`, in document order
RECURSIVE Preorder(_, _, _)
Preorder(d, path, k) ==
    IF k > Len(KidsOf(d, path)) THEN <<>>
    ELSE <<Append(path, k)>> \o Preorder(d, Append(path, k), 1) \o Preorder(d, path, k + 1)

IsPrefix(a, b) == Len(a) <= Len(b) /\ SubSeq(b, 1, Len(a)) = a
IsBirthsSpan(d, p) == NodeAt(d, p).name = "span" /\ NodeAt(d, p).id = "Births"
HasH2Ancestor(d, p) == \E n \in 1..(Len(p) - 1) : NameOf(d, SubSeq(p, 1, n)) = "h2"

\* the first element of seq that is in the set ok
FirstOf(seq, ok) ==
    LET hits == {i \in 1..Len(seq) : seq[i] \in ok}
    IN IF hits = {} THEN NoNode ELSE seq[CHOOSE i \in hits : \A j \in hits : i <= j]

IsH2(d, p) == NodeAt(d, p).name = "h2"
\* A selector that falls back to the first h2 of the page when no span#Births exists.
SelectSpanOrAnyH2(d) ==
    LET all == Preorder(d, <<>>, 1)
        nodes == {all[i] : i \in 1..Len(all)}
        InH2 == {p \in nodes : IsBirthsSpan(d, p) /\ HasH2Ancestor(d, p)}
        Anywhere == {p \in nodes : IsBirthsSpan(d, p)}
        AnyH2 == {p \in nodes : IsH2(d, p)}
        first == FirstOf(all, InH2)
        second == FirstOf(all, Anywhere)
    IN IF first # NoNode THEN first
       ELSE IF second # NoNode THEN second ELSE FirstOf(all, AnyH2)

\* soup.select_one("h2 span#Births") or soup.select_one("span#Births")
SelectSpan(d) ==
    LET all == Preorder(d, <<>>, 1)
        nodes == {all[i] : i \in 1..Len(all)}
        InH2 == {p \in nodes : IsBirthsSpan(d, p) /\ HasH2Ancestor(d, p)}
        Anywhere == {p \in nodes : IsBirthsSpan(d, p)}
        first == FirstOf(all, InH2)
    IN IF first # NoNode THEN first ELSE FirstOf(all, Anywhere)

\* node.find_all("li"): every <li> below the list, nested ones included
FindAllLiRecursive(d, path) ==
    LET below == Preorder(d, path, 1)
    IN SelectSeq(below, LAMBDA p : NameOf(d, p) = "li")

\* node.find_all("li", recursive=False)
RECURSIVE DirectLi(_, _, _)
DirectLi(d, path, k) ==
    IF k > Len(KidsOf(d, path)) THEN <<>>
    ELSE (IF NameOf(d, Append(path, k)) = "li" THEN <<Append(path, k)>> ELSE <<>>)
         \o DirectLi(d, path, k + 1)
FindAllLi(d, path) == DirectLi(d, path, 1)

\* li.get_text(" ", strip=True)
RECURSIVE StrippedStrings(_)
StrippedStrings(paths_nodes) ==
    IF paths_nodes = <<>> THEN <<>>
    ELSE LET n == Head(paths_nodes)
             own == IF n.name = "#text"
                    THEN (IF Strip(n.text) = "" THEN <<>> ELSE <<Strip(n.text)>>)
                    ELSE StrippedStrings(n.kids)
         IN own \o StrippedStrings(Tail(paths_nodes))
get_text(n) == Join(" ", StrippedStrings(<<n>>))

-----------------------------------------------------------------------------
(* build_html *)

RECURSIVE NatToStr(_)
NatToStr(n) == IF n < Len(DigitStr) THEN At(DigitStr, n + 1)
               ELSE NatToStr(n \div Len(DigitStr)) \o At(DigitStr, (n % Len(DigitStr)) + 1)
IntToStr(n) == IF n < 0 THEN "-" \o NatToStr(0 - n) ELSE NatToStr(n)

HtmlLine(e) ==
    "<p><strong>" \o e[2] \o "</strong> " \o DASH \o " " \o IntToStr(e[4])
      \o " years old (" \o IntToStr(e[1]) \o ")"
      \o (IF e[3] # "" THEN " " \o DASH \o " " \o e[3] ELSE "")
      \o "</p>"

RECURSIVE HtmlLines(_)
HtmlLines(es) == IF es = <<>> THEN <<>> ELSE <<HtmlLine(Head(es))>> \o HtmlLines(Tail(es))

build_html(es) == "<div class='birthdays'>\n" \o Join("\n", HtmlLines(es)) \o "\n</div>\n"

-----------------------------------------------------------------------------
(* Inputs: the documents main() is run on *)

MaxNodes == 3

Li(kids) == Elem("li", "", kids)
Ul(items) == Elem("ul", "", items)

EntryJane == "1950 ~ Jane Doe, American painter"
EntryEarly == "50 ~ Jane Doe, American painter"
EntryBob == "1960 ~ Bob Lee, American actor and singer"

H2Births == Elem("h2", "", <<Elem("span", "Births", <<Text("Births")>>)>>)
H2Deaths == Elem("h2", "", <<Elem("span", "Deaths", <<Text("Deaths")>>)>>)
Newline == Text("\n")
\* a span#Births that no h2 encloses
DivSpan == Elem("div", "", <<Elem("span", "Births", <<>>)>>)
UlJane == Ul(<<Li(<<Text(EntryJane)>>)>>)
UlEarly == Ul(<<Li(<<Text(EntryEarly)>>)>>)
UlBob == Ul(<<Li(<<Text(EntryBob)>>)>>)
\* an era bucket holding a sub-list, then a plain item
UlNested == Ul(<<Li(<<Text("1901~present"), Ul(<<Li(<<Text(EntryJane)>>)>>)>>),
                 Li(<<Text(EntryBob)>>)>>)
\* an item with inline markup: links and a footnote
UlMarkup == Ul(<<Li(<<Elem("a", "", <<Text("1960")>>), Text(" ~ "),
                      Elem("a", "", <<Text("Bob Lee")>>), Text(", American actor "),
                      Elem("sup", "", <<Text("[5]")>>)>>)>>)
\* a list inside a wrapper element
DivUl == Elem("div", "", <<Ul(<<Li(<<Text(EntryBob)>>)>>)>>)
\* the heading and its list inside a wrapper element
DivSection == Elem("div", "", <<H2Births, Newline, Ul(<<Li(<<Text(EntryBob)>>)>>)>>)

Shapes == {H2Births, H2Deaths, Newline, DivSpan, UlJane, UlEarly,
           UlBob, UlNested, UlMarkup, DivUl, DivSection}

Docs == UNION {[1..n -> Shapes] : n \in 0..MaxNodes}

-----------------------------------------------------------------------------
(* main() and find_births_section, one action per step *)

Returned == /\ pc' = "loop"
            /\ idx' = 0

\* lines 134-139
Select ==
    /\ pc = "select"
    /\ h2_span' = SelectSpan(doc)
    /\ IF h2_span' = NoNode
       THEN /\ Returned
            /\ UNCHANGED header
       ELSE /\ header' = h2_span'
            /\ pc' = "climb"
            /\ UNCHANGED idx
    /\ UNCHANGED <<doc, current_year, node, lis, entries, html,
                   li_text, variant, parsed, parsed2, desc_in, once, twice, marks>>

\* lines 143-144: one iteration of the climb
Climb ==
    /\ pc = "climb"
    /\ header # NoNode /\ NameOf(doc, header) # "h2"
    /\ header' = Parent(header)
    /\ UNCHANGED <<doc, current_year, pc, h2_span, node, lis, idx, entries, html,
                   li_text, variant, parsed, parsed2, desc_in, once, twice, marks>>

\* lines 146-147: the climb ran off the tree
ClimbFailed ==
    /\ pc = "climb"
    /\ header = NoNode
    /\ Returned
    /\ UNCHANGED <<doc, current_year, h2_span, header, node, lis, entries, html,
                   li_text, variant, parsed, parsed2, desc_in, once, twice, marks>>

\* lines 150-151: the climb stopped on the h2
StartWalk ==
    /\ pc = "climb"
    /\ header # NoNode /\ NameOf(doc, header) = "h2"
    /\ node' = NextSibling(doc, header)
    /\ pc' = "walk"
    /\ UNCHANGED <<doc, current_year, h2_span, header, lis, idx, entries, html,
                   li_text, variant, parsed, parsed2, desc_in, once, twice, marks>>

\* lines 153-155
WalkString ==
    /\ pc = "walk"
    /\ node # NoNode /\ NameOf(doc, node) = "#text"
    /\ node' = NextSibling(doc, node)
    /\ UNCHANGED <<doc, current_year, pc, h2_span, header, lis, idx, entries, html,
                   li_text, variant, parsed, parsed2, desc_in, once, twice, marks>>

\* lines 157-158
WalkH2 ==
    /\ pc = "walk"
    /\ node # NoNode /\ NameOf(doc, node) = "h2"
    /\ Returned
    /\ UNCHANGED <<doc, current_year, h2_span, header, node, lis, entries, html,
                   li_text, variant, parsed, parsed2, desc_in, once, twice, marks>>

\* lines 159-161
WalkUl ==
    /\ pc = "walk"
    /\ node # NoNode /\ NameOf(doc, node) = "ul"
    /\ lis' = lis \o FindAllLi(doc, node)
    /\ node' = NextSibling(doc, node)
    /\ UNCHANGED <<doc, current_year, pc, h2_span, header, idx, entries, html,
                   li_text, variant, parsed, parsed2, desc_in, once, twice, marks>>

\* line 161 for any other tag
WalkOther ==
    /\ pc = "walk"
    /\ node # NoNode /\ NameOf(doc, node) \notin {"#text", "h2", "ul"}
    /\ node' = NextSibling(doc, node)
    /\ UNCHANGED <<doc, current_year, pc, h2_span, header, lis, idx, entries, html,
                   li_text, variant, parsed, parsed2, desc_in, once, twice, marks>>

\* lines 152, 162: no sibling is left
WalkEnd ==
    /\ pc = "walk"
    /\ node = NoNode
    /\ Returned
    /\ UNCHANGED <<doc, current_year, h2_span, header, node, lis, entries, html,
                   li_text, variant, parsed, parsed2, desc_in, once, twice, marks>>

\* lines 202-206: one iteration of the loop over li_tags
ParseItem ==
    /\ pc = "loop"
    /\ idx < Len(lis)
    /\ li_text' = get_text(NodeAt(doc, lis[idx + 1]))
    /\ parsed' = parse_birth_li(li_text', current_year)
    /\ entries' = IF parsed' # None THEN Append(entries, parsed') ELSE entries
    /\ idx' = idx + 1
    /\ UNCHANGED <<doc, current_year, pc, h2_span, header, node, lis, html,
                   variant, parsed2, desc_in, once, twice, marks>>

\* lines 216-218
BuildHtml ==
    /\ pc = "loop"
    /\ idx = Len(lis)
    /\ html' = build_html(entries)
    /\ pc' = "done"
    /\ UNCHANGED <<doc, current_year, h2_span, header, node, lis, idx, entries,
                   li_text, variant, parsed, parsed2, desc_in, once, twice, marks>>

Init ==
    /\ doc \in Docs
    /\ current_year = 2025
    /\ pc = "select"
    /\ h2_span = NoNode /\ header = NoNode /\ node = NoNode
    /\ lis = <<>> /\ idx = 0 /\ entries = <<>> /\ html = ""
    /\ li_text = "" /\ variant = "" /\ parsed = None /\ parsed2 = None
    /\ desc_in = "" /\ once = "" /\ twice = "" /\ marks = 0

Next == \/ Select \/ Climb \/ ClimbFailed \/ StartWalk
        \/ WalkString \/ WalkH2 \/ WalkUl \/ WalkOther \/ WalkEnd
        \/ ParseItem \/ BuildHtml

Spec == Init /\ [][Next]_vars

-----------------------------------------------------------------------------
(* parse_birth_li on its own: the raw entries it is given *)

Heads == {"1950 ~ ", "1950 - ", "950 ~ ", "50 ~ ", "2999 ~ ", "1950~ ", "c. 1950 ~ ", ""}
Names == {"Jane Doe", "Jane", ""}
Joins == {", ", " "}
Nationalities == {"American ", "Chinese-American ", "AfroAmerican ", "Americans ",
                  "american ", "English ", "9American "}
Professions == {"painter", "actor,singer"}
Tails == {"", " (d. 2020)", "(d. 1990)", " (D. 1990)", " (died 1990)", " died", " Death",
          " " \o DAGGER, " (1950 ~ 1988)", " (1950~1988)", " [5]"}

RawEntries == {h \o n \o j \o a \o p \o t :
                 h \in Heads, n \in Names, j \in Joins, a \in Nationalities,
                 p \in Professions, t \in Tails}
CurrentYears == {1949, 2025}

pureIdle == <<doc, h2_span, header, node, lis, idx, entries, html>>

InitParse ==
    /\ li_text \in RawEntries
    /\ current_year \in CurrentYears
    /\ pc = "parse"
    /\ doc = <<>> /\ h2_span = NoNode /\ header = NoNode /\ node = NoNode
    /\ lis = <<>> /\ idx = 0 /\ entries = <<>> /\ html = ""
    /\ variant = "" /\ parsed = None /\ parsed2 = None
    /\ desc_in = "" /\ once = "" /\ twice = "" /\ marks = 0

\* lines 74-125
ParseEntry ==
    /\ pc = "parse"
    /\ parsed' = parse_birth_li(li_text, current_year)
    /\ pc' = "parsed"
    /\ UNCHANGED <<pureIdle, current_year, li_text, variant, parsed2, desc_in, once, twice, marks>>

NextParse == ParseEntry

SpecParse == InitParse /\ [][NextParse]_vars

-----------------------------------------------------------------------------
(* fix_profession on its own, applied once and then again to its own result *)

MaxDescLen == 3

DescAlphabet == {"a", " ", ",", DASH, "[", "]"}
DescPrefixes == {"", "American ", "american ", "American American "}

RECURSIVE Words(_)
Words(n) == IF n = 0 THEN {""}
            ELSE Words(n - 1) \cup {w \o c : w \in Words(n - 1), c \in DescAlphabet}

Descriptions == {p \o w : p \in DescPrefixes, w \in Words(MaxDescLen)}

InitFix ==
    /\ desc_in \in Descriptions
    /\ pc = "fix"
    /\ current_year = 2025
    /\ doc = <<>> /\ h2_span = NoNode /\ header = NoNode /\ node = NoNode
    /\ lis = <<>> /\ idx = 0 /\ entries = <<>> /\ html = ""
    /\ li_text = "" /\ variant = "" /\ parsed = None /\ parsed2 = None
    /\ once = "" /\ twice = "" /\ marks = 0

\* lines 55-72
FixOnce ==
    /\ pc = "fix"
    /\ once' = fix_profession(desc_in)
    /\ pc' = "again"
    /\ UNCHANGED <<pureIdle, current_year, li_text, variant, parsed, parsed2, desc_in, twice, marks>>

FixAgain ==
    /\ pc = "again"
    /\ twice' = fix_profession(once)
    /\ pc' = "fixed"
    /\ UNCHANGED <<pureIdle, current_year, li_text, variant, parsed, parsed2, desc_in, once, marks>>

NextFix == FixOnce \/ FixAgain

SpecFix == InitFix /\ [][NextFix]_vars

-----------------------------------------------------------------------------
(* parse_birth_li on two raw entries that differ by citation markers and blanks *)

MaxMarkers == 1

CiteBases == {"1960 ~ Bob Lee, Actor", "1960 ~ Bob Lee, American actor",
              "1950 ~ Al, American died", "Bob Lee"}
Markers == {"[5]", "[a]"}
Blanks == {" ", "\t"}

Insert(s, k, x) == SubSeq(s, 1, k) \o x \o From(s, k + 1)
\* position k (after the k-th character) lies outside every bracketed marker of s
Outside(s, k) == Cardinality({i \in 1..k : At(s, i) = "["})
                   = Cardinality({i \in 1..k : At(s, i) = "]"})
\* a blank added after position k is leading, trailing or next to white space
BlankSpot(s, k) == k = 0 \/ k = Len(s) \/ IsSpace(At(s, k)) \/ IsSpace(At(s, k + 1))

InitCite ==
    /\ li_text \in CiteBases
    /\ variant = li_text
    /\ marks = 0
    /\ pc = "decorate"
    /\ current_year = 2025
    /\ doc = <<>> /\ h2_span = NoNode /\ header = NoNode /\ node = NoNode
    /\ lis = <<>> /\ idx = 0 /\ entries = <<>> /\ html = ""
    /\ parsed = None /\ parsed2 = None
    /\ desc_in = "" /\ once = "" /\ twice = ""

AddCitation ==
    /\ pc = "decorate" /\ marks < MaxMarkers
    /\ \E k \in 0..Len(variant), m \in Markers :
          /\ Outside(variant, k)
          /\ variant' = Insert(variant, k, m)
    /\ marks' = marks + 1
    /\ UNCHANGED <<pureIdle, current_year, pc, li_text, parsed, parsed2, desc_in, once, twice>>

AddBlank ==
    /\ pc = "decorate" /\ marks < MaxMarkers
    /\ \E k \in 0..Len(variant), b \in Blanks :
          /\ Outside(variant, k) /\ BlankSpot(variant, k)
          /\ variant' = Insert(variant, k, b)
    /\ marks' = marks + 1
    /\ UNCHANGED <<pureIdle, current_year, pc, li_text, parsed, parsed2, desc_in, once, twice>>

\* lines 74-125, on both entries
ParseBoth ==
    /\ pc = "decorate"
    /\ parsed' = parse_birth_li(li_text, current_year)
    /\ parsed2' = parse_birth_li(variant, current_year)
    /\ pc' = "parsed"
    /\ UNCHANGED <<pureIdle, current_year, li_text, variant, desc_in, once, twice, marks>>

NextCite == AddCitation \/ AddBlank \/ ParseBoth

SpecCite == InitCite /\ [][NextCite]_vars

-----------------------------------------------------------------------------
(* Properties of the page run (Spec) *)

Range(seq) == {seq[i] : i \in 1..Len(seq)}
Paths(d) == Range(Preorder(d, <<>>, 1))

\* the h2 elements that enclose a span#Births, i.e. the headings matching "Births"
BirthsHeadings(d) ==
    LET all == Paths(d)
        spans == {p \in all : NodeAt(d, p).name = "span" /\ NodeAt(d, p).id = "Births"}
    IN {h \in all : /\ NodeAt(d, h).name = "h2"
                    /\ \E p \in spans : IsPrefix(h, p) /\ p # h}
NoBirthsHeading(d) == BirthsHeadings(d) = {}

\* document order of two paths
RECURSIVE Before(_, _)
Before(a, b) == IF a = <<>> THEN b # <<>>
                ELSE IF b = <<>> THEN FALSE
                ELSE IF a[1] # b[1] THEN a[1] < b[1]
                ELSE Before(Tail(a), Tail(b))

\* the heading of the section: the one enclosing the first span#Births that has one
TheHeading(d, heads) ==
    LET spans == {p \in Paths(d) : /\ NodeAt(d, p).name = "span" /\ NodeAt(d, p).id = "Births"
                                   /\ \E h \in heads : IsPrefix(h, p)}
        first == CHOOSE p \in spans : \A q \in spans : q = p \/ Before(p, q)
    IN CHOOSE h \in heads :
          /\ IsPrefix(h, first)
          /\ \A g \in heads : IsPrefix(g, first) => IsPrefix(g, h)

\* the top-level items of the list blocks between the heading and the next h2 beside it
SectionItems(d) ==
    LET heads == BirthsHeadings(d)
    IN IF heads = {} THEN {}
       ELSE LET h == TheHeading(d, heads)
                up == Parent(h)
                at == h[Len(h)]
                sibs == KidsOf(d, up)
                Closed(k) == \E j \in (at + 1)..(k - 1) : sibs[j].name = "h2"
            IN UNION {{Append(Append(up, k), m) :
                         m \in {m \in 1..Len(sibs[k].kids) : sibs[k].kids[m].name = "li"}} :
                      k \in {k \in (at + 1)..Len(sibs) : ~Closed(k) /\ sibs[k].name = "ul"}}

WalkOver == pc \in {"loop", "done"}
EmptyFragment == "<div class='birthdays'>\n\n</div>\n"

\* the well-formed entries 'Y ~ Name, American <profession>' the pages hold, with
\* the record each one stands for
WellFormed ==
    { [text |-> EntryJane, year |-> 1950, digits |-> 4, name |-> "Jane Doe", desc |-> "Painter"],
      [text |-> EntryBob, year |-> 1960, digits |-> 4, name |-> "Bob Lee",
       desc |-> "Actor and singer"],
      [text |-> EntryEarly, year |-> 50, digits |-> 2, name |-> "Jane Doe", desc |-> "Painter"] }

OnlyItemIs(items, d, w) ==
    /\ Cardinality(items) = 1
    /\ \A p \in items : NodeAt(d, p).kids = <<Text(w.text)>>

RoundTrip(w) ==
    /\ entries = << <<w.year, w.name, w.desc, current_year - w.year>> >>
    /\ html = "<div class='birthdays'>\n<p><strong>" \o w.name \o "</strong> " \o DASH \o " "
                 \o IntToStr(current_year - w.year) \o " years old (" \o IntToStr(w.year)
                 \o ") " \o DASH \o " " \o w.desc \o "</p>\n</div>\n"

C6_NoSectionNoEntries ==
    NoBirthsHeading(doc) =>
      /\ pc # "walk"
      /\ lis = <<>> /\ entries = <<>>
      /\ (pc = "done" => html = EmptyFragment)

C6_Witness ==
    /\ pc = "done" /\ NoBirthsHeading(doc)
    /\ h2_span # NoNode
    /\ \E i \in 1..Len(doc) : doc[i] = UlJane

-----------------------------------------------------------------------------
(* Properties of parse_birth_li (SpecParse) *)

Parsed == pc = "parsed"
\* the text after the year separator
RightText == RightOf(clean_text(li_text))

Contains(s, w) == \E p \in 1..Len(s) : MatchAt(s, p, w)
NotWordAt(s, i) == ~IsWord(At(s, i))

\* 'American' as a whole word; the hyphen of 'Chinese-American' is no word character
WholeWordAmerican(s) == \E p \in 1..Len(s) :
    MatchAt(s, p, "American") /\ NotWordAt(s, p - 1) /\ NotWordAt(s, p + 8)

\* 'American' closing a word: nothing of a word follows it, and the ASCII letters
\* run together with it begin at the start of the text or after a non-word character
RECURSIVE LettersStart(_, _)
LettersStart(s, p) == IF IsAsciiLetter(At(s, p - 1)) THEN LettersStart(s, p - 1) ELSE p
ClosesWordAmerican(s) == \E p \in 1..Len(s) :
    /\ MatchAt(s, p, "American") /\ NotWordAt(s, p + 8)
    /\ NotWordAt(s, LettersStart(s, p) - 1)

\* C2, as stated: a record is returned only if the text after the year separator
\* holds 'American' as a whole word (a hyphen-prefixed compound included).
C2_WholeWordOnly == (Parsed /\ parsed # None) => WholeWordAmerican(RightText)

\* C2, amended: a record is returned only if the text after the year separator
\* holds 'American' at the end of a word whose preceding ASCII letters, if any,
\* start at a word boundary ('Chinese-American' and 'AfroAmerican' pass,
\* 'Americans' and '9American' do not).
C2_ClosesWord == (Parsed /\ parsed # None) => ClosesWordAmerican(RightText)

C2_Witness == Parsed /\ parsed # None /\ Contains(li_text, "Chinese-American")

\* a marker '(d. YYYY)'
DeathYearMarker(s) == \E p \in 1..Len(s) :
    MatchAt(s, p, "(d. ") /\ DigitsAt(s, p + 4, 4) /\ At(s, p + 8) = ")"

\* C3: an entry whose description holds a marker '(d. YYYY)' yields no record,
\* whatever its nationality.
C3_DeathYearExcluded == (Parsed /\ DeathYearMarker(DescOf(li_text))) => parsed = None

C3_Witness ==
    /\ Parsed /\ parsed = None
    /\ li_text = "1950 ~ Jane Doe, American painter (d. 2020)"
    /\ DeathYearMarker(DescOf(li_text))

\* C4: every record has age = current_year - birth_year and age >= 0.
C4_AgeNonNegative ==
    (Parsed /\ parsed # None) =>
       /\ parsed[4] = current_year - parsed[1]
       /\ parsed[4] >= 0

HasWord(s, w) == \E p \in 1..Len(s) :
    MatchAt(s, p, w) /\ NotWordAt(s, p - 1) /\ NotWordAt(s, p + Len(w))
ParenYear(s, open) == \E p \in 1..Len(s) :
    /\ MatchAt(s, p, open)
    /\ DigitsAt(s, p + Len(open), 4) /\ At(s, p + Len(open) + 4) = ")"
LifespanEnd(s) == \E p \in 1..Len(s) :
    /\ At(s, p) = DASH
    /\ LET q == SkipSpace(s, p + 1) IN DigitsAt(s, q, 4) /\ At(s, q + 4) = ")"
ListedDeathSign(s) ==
    LET t == ToLower(s)
    IN \/ HasWord(t, "died") \/ HasWord(t, "death")
       \/ ParenYear(t, "(d. ") \/ ParenYear(t, "(died ")
       \/ Contains(t, DAGGER)
       \/ LifespanEnd(t)

\* C9: each listed death heuristic alone excludes the entry: the word died or
\* death, '(d. YYYY)' or '(died YYYY)', a dagger, a closing '~ YYYY)' range.
C9_EveryHeuristicExcludes == (Parsed /\ ListedDeathSign(RightText)) => parsed = None

\* C10: every record has a non-empty name.
C10_NameNonEmpty == (Parsed /\ parsed # None) => parsed[2] # ""

-----------------------------------------------------------------------------
(* Property of fix_profession (SpecFix) *)

\* C5: fix_profession(fix_profession(d)) = fix_profession(d).
C5_Idempotent == pc = "fixed" => twice = once

-----------------------------------------------------------------------------
(* Property of clean_text within parse_birth_li (SpecCite) *)

\* C8: two raw entries that differ only by bracketed citation markers and by
\* leading, trailing or repeated white space have the same outcome and the same
\* normalised description.
C8_CitationsIgnored ==
    Parsed =>
       /\ parsed2 = parsed
       /\ fix_profession(DescOf(variant)) = fix_profession(DescOf(li_text))

C8_Witness ==
    /\ Parsed /\ parsed # None
    /\ variant # li_text /\ Contains(variant, "[a]")
====
